---- MODULE Spec2Model ----
(***************************************************************************)
(* Kanban sticky-notes board: task lifecycle and time tracking.            *)
(*                                                                         *)
(* The board of src/src/js/main.js (task list, modals, timers), the        *)
(* drag-and-drop handler of src/js/main.js (handleDrop) and the            *)
(* TimerManager of src/js/timer.js, as one state machine.  Every handler   *)
(* runs to completion at one clock instant (single-threaded event loop);   *)
(* the clock only moves between handlers.                                  *)
(*                                                                         *)
(* Instants are positive epoch milliseconds, so 0 stands for null: both    *)
(* are falsy in the guards of the source (!startedAt, note.startedAt &&).  *)
(*                                                                         *)
(* Spec is the board, SpecDetails the board with the details view of a     *)
(* task, SpecLegacy the older board of src/js/main.js (lines 1-256).       *)
(* SpecTimer is a client calling the TimerManager's                        *)
(* methods directly, SpecDueDate and SpecFormat apply formatDueDate and    *)
(* the two duration formatters of timer.js to a range of inputs.           *)
(***************************************************************************)
EXTENDS Integers, Sequences, FiniteSets, TLC

\* ---- bounds of the model ------------------------------------------------
MaxTime == 3
MaxCreated == 2
MaxMoves == 3
MaxNoteId == 2
MaxStarts == 2
MaxCallback == 2
MaxNowDay == 1
MaxDueDay == 4
MaxHours == 100
MaxLegacySteps == 4

\* ---- values -------------------------------------------------------------
Null == 0
Columns == {"todo", "inprogress", "done"}
\* texts are sequences of characters
\* what the user can type into #noteText of the add form
RawTexts == { <<>>, <<" ">>, <<" ", "a">> }
\* what the user can leave in the task modal: the add modal is saved as the add
\* form filled it, the edit modal with either content
Prefilled == [text |-> <<"a">>, description |-> <<>>, priority |-> "medium", dueDate |-> Null]
Contents ==
  { Prefilled,
    [text |-> <<"b", " ">>, description |-> <<" ", "d">>, priority |-> "high", dueDate |-> 2] }
\* a task name left empty, and one of white space only
EmptyContent == [text |-> <<>>, description |-> <<>>, priority |-> "medium", dueDate |-> Null]
BlankContent == [text |-> <<" ">>, description |-> <<>>, priority |-> "medium", dueDate |-> Null]

VARIABLES
  now,              \* Date.now()
  notes,            \* main.js: let notes = []
  stored,           \* what localStorage holds (storage.js)
  storageAvailable, \* storage.js: isStorageAvailable()
  activeTimers,     \* TimerManager.activeTimers: Map<noteId, startTime>
  updateIntervalId, \* TimerManager.updateIntervalId (Null or the interval)
  display,          \* text of the .timerDisplay reached through [data-note-id]
  modal,            \* the open task modal (openTaskModal closure)
  nextKey,          \* history: number of note objects created so far + 1
  entered,          \* history: key -> instant of the last entry into inprogress
  closed,           \* history: key -> sum of the closed inprogress sessions
  moves,            \* history: number of drops handled so far
  moved,            \* history: keys of the notes a drop has acted on
  loads,            \* history: calls of loadNotes() other than the one of init()
  call,             \* history: the last call made to the TimerManager directly
  starts,           \* history: id -> the start instants direct calls gave it since its last stop
  scheduled,        \* the browser's live intervals: callback -> how many call it
  details           \* the .taskDetailsModal a click on a card left on the page

vars == <<now, notes, stored, storageAvailable, activeTimers, updateIntervalId,
          display, modal, nextKey, entered, closed, moves, moved, loads, call, starts, scheduled,
          details>>

\* kind: which form is open; id and ref: the id of the note object the edit
\* form holds and where that object sits in notes (0: in no array any more);
\* column: the column the add form was submitted for
NoModal == [kind |-> "none", id |-> Null, ref |-> 0, column |-> "todo"]

\* kind: "none" (no details modal on the page), "open", or "error" (the click
\* handler ended in an uncaught TypeError before it appended the modal);
\* id: the id of the note the card stands for; timeSpentDisplay: the text of
\* the "Time Spent So Far" row, the empty text when the row is left out
NoDetails == [kind |-> "none", id |-> Null, timeSpentDisplay |-> <<>>]

\* no call made yet; otherwise the method, its arguments, what it returned
\* and whether it wrote to console.error
NoCall == [op |-> "none", noteId |-> Null, startedAt |-> Null, ret |-> Null,
           error |-> FALSE]

\* ---- storage.js (not in the sources: taken from the interface) -----------
\* load(): the stored sequence, empty when storage is unavailable
loadNotes(st) == IF storageAvailable THEN st ELSE <<>>
\* save(seq): replaces the stored sequence; fails silently when unavailable
saveNotes(ns) == IF storageAvailable THEN ns ELSE stored

\* ---- TimerManager (src/js/timer.js) --------------------------------------
\* !noteId || !startedAt: undefined, null and 0 are all falsy
startTimerFails(noteId, startedAt) == noteId = Null \/ startedAt = Null

\* startTimer that sets the entry whatever its arguments are
startTimerUnchecked(timers, noteId, startedAt) ==
  [x \in (DOMAIN timers) \cup {noteId} |->
     IF x = noteId THEN startedAt ELSE timers[x]]

\* startTimer that keeps the start instant of a session that already exists
startTimerKeepingFirst(timers, noteId, startedAt) ==
  IF startTimerFails(noteId, startedAt) \/ noteId \in DOMAIN timers
  THEN timers
  ELSE [x \in (DOMAIN timers) \cup {noteId} |->
          IF x = noteId THEN startedAt ELSE timers[x]]

\* the map startTimer leaves
startTimer(timers, noteId, startedAt) ==
  IF startTimerFails(noteId, startedAt)
  THEN timers
  ELSE [x \in (DOMAIN timers) \cup {noteId} |->
          IF x = noteId THEN startedAt ELSE timers[x]]

\* the value stopTimer returns
stopTimerElapsed(timers, noteId, t) ==
  IF noteId \notin DOMAIN timers THEN 0 ELSE t - timers[noteId]

\* stopTimer without this.activeTimers.delete(noteId)
stopTimerMapKeeping(timers, noteId) == timers

\* the map stopTimer leaves
stopTimerMap(timers, noteId) ==
  [x \in (DOMAIN timers) \ {noteId} |-> timers[x]]

\* getElapsedTime without the activeTimers.has check, a missing start read as 0
getElapsedTimeUnchecked(timers, noteId, currentTime) ==
  currentTime - (IF noteId \in DOMAIN timers THEN timers[noteId] ELSE 0)

getElapsedTime(timers, noteId, currentTime) ==
  IF noteId \notin DOMAIN timers THEN 0 ELSE currentTime - timers[noteId]

isTimerActive(timers, noteId) == noteId \in DOMAIN timers

getActiveTimerIds(timers) == DOMAIN timers

EmptyTimers == [x \in {} |-> 0]

\* the callbacks a client can pass to startUpdateLoop; an interval handle is
\* named by the callback its interval calls
Callbacks == 1..MaxCallback
\* main.js passes updateTimerDisplays
UpdateTimerDisplays == 1
\* window.setInterval and window.clearInterval on the page's live intervals
NoIntervals == [cb \in Callbacks |-> 0]
setInterval(sched, cb) == [sched EXCEPT ![cb] = @ + 1]
clearInterval(sched, handle) ==
  IF handle \in DOMAIN sched /\ sched[handle] > 0
  THEN [sched EXCEPT ![handle] = @ - 1]
  ELSE sched

\* startUpdateLoop without "if (this.updateIntervalId) return"
startUpdateLoopUnguarded(updateCallback) ==
  /\ updateIntervalId' = updateCallback
  /\ scheduled' = setInterval(scheduled, updateCallback)

startUpdateLoop(updateCallback) ==
  IF updateIntervalId # Null
  THEN UNCHANGED <<updateIntervalId, scheduled>>
  ELSE /\ updateIntervalId' = updateCallback
       /\ scheduled' = setInterval(scheduled, updateCallback)

stopUpdateLoop ==
  IF updateIntervalId # Null
  THEN /\ scheduled' = clearInterval(scheduled, updateIntervalId)
       /\ updateIntervalId' = Null
  ELSE UNCHANGED <<updateIntervalId, scheduled>>

\* pauseAllTimers that also clears the sessions
pauseAllTimersClearing ==
  /\ stopUpdateLoop
  /\ activeTimers' = EmptyTimers

pauseAllTimers ==
  /\ stopUpdateLoop
  /\ activeTimers' = activeTimers

resumeAllTimers(updateCallback) ==
  /\ startUpdateLoop(updateCallback)
  /\ activeTimers' = activeTimers

\* ---- main.js helpers ------------------------------------------------------
\* String.prototype.trim
RECURSIVE trimStart(_)
trimStart(s) == IF s # <<>> /\ Head(s) = " " THEN trimStart(Tail(s)) ELSE s
RECURSIVE trimEnd(_)
trimEnd(s) ==
  IF s # <<>> /\ s[Len(s)] = " " THEN trimEnd(SubSeq(s, 1, Len(s) - 1)) ELSE s
trim(s) == trimEnd(trimStart(s))

RECURSIVE initializeTimersFrom(_, _, _)
initializeTimersFrom(ns, i, timers) ==
  IF i > Len(ns) THEN timers
  ELSE initializeTimersFrom(ns, i + 1,
         IF ns[i].column = "inprogress" /\ ns[i].startedAt # Null
         THEN startTimer(timers, ns[i].id, ns[i].startedAt)
         ELSE timers)

initializeTimers(ns, timers) == initializeTimersFrom(ns, 1, timers)

\* notes.findIndex(note => note.id === noteId), 0 when there is none
findIndex(ns, noteId) ==
  IF \E i \in 1..Len(ns) : ns[i].id = noteId
  THEN CHOOSE i \in 1..Len(ns) :
         /\ ns[i].id = noteId
         /\ \A j \in 1..(i - 1) : ns[j].id # noteId
  ELSE 0

NoteIds(ns) == { ns[i].id : i \in 1..Len(ns) }

\* renderNotes: columns are filled in the order todo, inprogress, done,
\* each sorted by priority (stable); querySelector returns the first card
ColumnRank(c) == CASE c = "todo" -> 1 [] c = "inprogress" -> 2 [] OTHER -> 3
PriorityRank(p) == CASE p = "high" -> 1 [] p = "medium" -> 2 [] p = "low" -> 3 [] OTHER -> 2

Before(ns, i, j) ==
  \/ ColumnRank(ns[i].column) < ColumnRank(ns[j].column)
  \/ /\ ColumnRank(ns[i].column) = ColumnRank(ns[j].column)
     /\ \/ PriorityRank(ns[i].priority) < PriorityRank(ns[j].priority)
        \/ /\ PriorityRank(ns[i].priority) = PriorityRank(ns[j].priority)
           /\ i < j

FirstCard(ns, noteId) ==
  CHOOSE i \in 1..Len(ns) :
    /\ ns[i].id = noteId
    /\ \A j \in 1..Len(ns) : (j # i /\ ns[j].id = noteId) => Before(ns, i, j)

\* createNoteElement adds a .timerDisplay only to an inprogress card with startedAt
HasTimerDisplay(n) == n.column = "inprogress" /\ n.startedAt # Null

renderNotes(ns, t) ==
  [x \in { y \in NoteIds(ns) : HasTimerDisplay(ns[FirstCard(ns, y)]) } |->
     t - ns[FirstCard(ns, x)].startedAt]

\* ---- initial state: init() on a first visit --------------------------------
Init ==
  /\ now = 1
  /\ storageAvailable \in BOOLEAN
  /\ stored = <<>>
  /\ notes = <<>>
  /\ activeTimers = EmptyTimers
  /\ updateIntervalId = UpdateTimerDisplays
  /\ display = EmptyTimers
  /\ modal = NoModal
  /\ nextKey = 1
  /\ entered = [k \in {} |-> 0]
  /\ closed = [k \in {} |-> 0]
  /\ moves = 0
  /\ moved = {}
  /\ loads = 0
  /\ call = NoCall
  /\ starts = [x \in {} |-> <<>>]
  /\ scheduled = setInterval(NoIntervals, UpdateTimerDisplays)
  /\ details = NoDetails

\* ---- handlers ---------------------------------------------------------------
\* the clock moves between handlers
Advance ==
  /\ now < MaxTime
  /\ now' = now + 1
  /\ UNCHANGED <<notes, stored, storageAvailable, details, activeTimers, updateIntervalId,
                 display, modal, nextKey, entered, closed, moves, moved, loads, call, starts, scheduled>>

\* handleFormSubmit: the add form; empty text flashes the input and returns
handleFormSubmit(text, column) ==
  /\ modal.kind = "none"
  /\ modal' = IF Len(trim(text)) = 0
              THEN modal
              ELSE [kind |-> "add", id |-> Null, ref |-> 0, column |-> column]
  /\ UNCHANGED <<now, notes, stored, storageAvailable, details, activeTimers,
                 updateIntervalId, display, nextKey, entered, closed, moves, moved, loads, call, starts, scheduled>>

\* handleButtonClick on .editBtn: openTaskModal(notes.find(n => n.id === noteId))
openTaskModal(noteId) ==
  /\ modal.kind = "none"
  /\ findIndex(notes, noteId) # 0
  /\ modal' = [kind |-> "edit", id |-> noteId, ref |-> findIndex(notes, noteId),
              column |-> "todo"]
  /\ UNCHANGED <<now, notes, stored, storageAvailable, details, activeTimers,
                 updateIntervalId, display, nextKey, entered, closed, moves, moved, loads, call, starts, scheduled>>

\* closeBtn / cancelBtn / backdrop / Escape
closeModal ==
  /\ modal.kind # "none"
  /\ modal' = NoModal
  /\ UNCHANGED <<now, notes, stored, storageAvailable, details, activeTimers,
                 updateIntervalId, display, nextKey, entered, closed, moves, moved, loads, call, starts, scheduled>>

\* the record addNote builds; key is the history name of the object
newNote(c, column, t, key) ==
  [ key |-> key,
    id |-> t,
    text |-> c.text,
    description |-> c.description,
    column |-> column,
    priority |-> c.priority,
    dueDate |-> c.dueDate,
    createdAt |-> t,
    lastEditedAt |-> Null,
    startedAt |-> IF column = "inprogress" THEN t ELSE Null,
    completedAt |-> Null,
    timeSpent |-> 0 ]

\* addNote without its saveNotes(notes)
addNoteUnsaved(c, column) ==
  LET n == newNote(c, column, now, nextKey)
      ns == Append(notes, n)
  IN /\ nextKey <= MaxCreated
     /\ notes' = ns
     /\ activeTimers' = IF column = "inprogress"
                        THEN startTimer(activeTimers, n.id, n.startedAt)
                        ELSE activeTimers
     /\ stored' = stored
     /\ display' = renderNotes(ns, now)
     /\ nextKey' = nextKey + 1
     /\ moves' = moves
     /\ moved' = moved
     /\ loads' = loads
     /\ call' = call
     /\ starts' = starts
     /\ scheduled' = scheduled
     /\ entered' = [k \in (DOMAIN entered) \cup {nextKey} |->
                      IF k = nextKey
                      THEN (IF column = "inprogress" THEN now ELSE Null)
                      ELSE entered[k]]
     /\ closed' = [k \in (DOMAIN closed) \cup {nextKey} |->
                      IF k = nextKey THEN 0 ELSE closed[k]]

\* addNote(text, column, priority, description, dueDate)
addNote(c, column) ==
  LET n == newNote(c, column, now, nextKey)
      ns == Append(notes, n)
  IN /\ nextKey <= MaxCreated
     /\ notes' = ns
     /\ activeTimers' = IF column = "inprogress"
                        THEN startTimer(activeTimers, n.id, n.startedAt)
                        ELSE activeTimers
     /\ stored' = saveNotes(ns)
     /\ display' = renderNotes(ns, now)
     /\ nextKey' = nextKey + 1
     /\ moves' = moves
     /\ moved' = moved
     /\ loads' = loads
     /\ call' = call
     /\ starts' = starts
     /\ scheduled' = scheduled
     /\ entered' = [k \in (DOMAIN entered) \cup {nextKey} |->
                      IF k = nextKey
                      THEN (IF column = "inprogress" THEN now ELSE Null)
                      ELSE entered[k]]
     /\ closed' = [k \in (DOMAIN closed) \cup {nextKey} |->
                      IF k = nextKey THEN 0 ELSE closed[k]]

\* the fields saveTask writes into the note the modal was opened on
editNote(n, c, t) ==
  [n EXCEPT !.text = c.text, !.description = c.description,
            !.priority = c.priority, !.dueDate = c.dueDate,
            !.lastEditedAt = t]

\* the form values saveTask reads: name and description trimmed
formValues(c) == [c EXCEPT !.text = trim(@), !.description = trim(@)]

\* saveTask without "if (newText.length === 0) { ...; return; }"
saveTaskUnvalidated(c) ==
  LET v == formValues(c)
  IN /\ modal.kind # "none"
     /\ modal' = NoModal
     /\ IF modal.kind = "edit"
        THEN LET ns == IF modal.ref = 0 THEN notes
                       ELSE [notes EXCEPT ![modal.ref] = editNote(@, v, now)]
             IN /\ notes' = ns
                /\ stored' = saveNotes(ns)
                /\ display' = renderNotes(ns, now)
                /\ UNCHANGED <<activeTimers, nextKey, entered, closed, moves, moved, loads, call, starts, scheduled>>
        ELSE addNote(v, modal.column)
     /\ UNCHANGED <<now, storageAvailable, details, updateIntervalId>>

\* saveTask: the modal's save button (or Enter)
saveTask(c) ==
  LET v == formValues(c)
  IN /\ modal.kind # "none"
     /\ IF Len(v.text) = 0
        THEN UNCHANGED <<notes, stored, activeTimers, display, modal, nextKey,
                         entered, closed, moves, moved, loads, call, starts, scheduled>>
        ELSE /\ modal' = NoModal
             /\ IF modal.kind = "edit"
                THEN \* a note object no longer in the array is written to no one
                     LET ns == IF modal.ref = 0 THEN notes
                               ELSE [notes EXCEPT ![modal.ref] = editNote(@, v, now)]
                     IN /\ notes' = ns
                        /\ stored' = saveNotes(ns)
                        /\ display' = renderNotes(ns, now)
                        /\ UNCHANGED <<activeTimers, nextKey, entered, closed, moves, moved, loads, call, starts, scheduled>>
                ELSE addNote(v, modal.column)
     /\ UNCHANGED <<now, storageAvailable, details, updateIntervalId>>

\* where the modal's note object sits after notes.filter(note => note.id !== noteId)
refAfterDelete(ns, ref, noteId) ==
  IF ref = 0 THEN 0
  ELSE IF ns[ref].id = noteId THEN 0
  ELSE ref - Cardinality({ j \in 1..(ref - 1) : ns[j].id = noteId })

\* deleteNote(noteId), from a card's .deleteBtn
deleteNote(noteId) ==
  LET ns == SelectSeq(notes, LAMBDA n : n.id # noteId)
  IN /\ noteId \in NoteIds(notes)
     /\ activeTimers' = stopTimerMap(activeTimers, noteId)
     /\ notes' = ns
     /\ stored' = saveNotes(ns)
     /\ display' = renderNotes(ns, now)
     /\ modal' = IF modal.kind = "edit"
                 THEN [modal EXCEPT !.ref = refAfterDelete(notes, modal.ref, noteId)]
                 ELSE modal
     /\ UNCHANGED <<now, storageAvailable, details, updateIntervalId,
                    nextKey, entered, closed, moves, moved, loads, call, starts, scheduled>>

\* handleDrop with "timeSpent = elapsedTime" for "timeSpent = (timeSpent || 0) + elapsedTime"
droppedNoteReplacing(n, newColumn, timers, t) ==
  LET oldColumn == n.column
      n1 == [n EXCEPT !.column = newColumn]
      n2 == IF newColumn = "inprogress" /\ oldColumn # "inprogress"
            THEN [n1 EXCEPT !.startedAt = t]
            ELSE n1
      n3 == IF oldColumn = "inprogress" /\ newColumn # "inprogress"
            THEN [n2 EXCEPT !.timeSpent = stopTimerElapsed(timers, n.id, t),
                            !.completedAt = IF newColumn = "done" THEN t ELSE @]
            ELSE n2
  IN n3

\* the note handleDrop leaves at notes[noteIndex]
droppedNote(n, newColumn, timers, t) ==
  LET oldColumn == n.column
      n1 == [n EXCEPT !.column = newColumn]
      n2 == IF newColumn = "inprogress" /\ oldColumn # "inprogress"
            THEN [n1 EXCEPT !.startedAt = t]
            ELSE n1
      n3 == IF oldColumn = "inprogress" /\ newColumn # "inprogress"
            THEN [n2 EXCEPT !.timeSpent = @ + stopTimerElapsed(timers, n.id, t),
                            !.completedAt = IF newColumn = "done" THEN t ELSE @]
            ELSE n2
  IN n3

\* the timer map handleDrop leaves before it dispatches notesUpdated
droppedTimers(n, newColumn, timers, t) ==
  LET oldColumn == n.column
      t1 == IF newColumn = "inprogress" /\ oldColumn # "inprogress"
            THEN startTimer(timers, n.id, t)
            ELSE timers
      t2 == IF oldColumn = "inprogress" /\ newColumn # "inprogress"
            THEN stopTimerMap(t1, n.id)
            ELSE t1
  IN t2

\* handleDrop, with the notesUpdated listener it triggers synchronously:
\* notes = loadNotes(); renderNotes(notes); initializeTimers()
handleDrop(noteId, newColumn) ==
  LET i == findIndex(notes, noteId)
      n == notes[i]
      ns == [notes EXCEPT ![i] = droppedNote(n, newColumn, activeTimers, now)]
      saved == saveNotes(ns)
      loaded == loadNotes(saved)
  IN /\ i # 0
     /\ moves < MaxMoves
     /\ moves' = moves + 1
     /\ moved' = moved \cup {n.key}
     /\ stored' = saved
     /\ notes' = loaded
     /\ display' = renderNotes(loaded, now)
     /\ activeTimers' = initializeTimers(loaded,
                          droppedTimers(n, newColumn, activeTimers, now))
     /\ modal' = IF modal.kind = "edit" THEN [modal EXCEPT !.ref = 0] ELSE modal
     /\ entered' = IF newColumn = "inprogress" /\ n.column # "inprogress"
                   THEN [entered EXCEPT ![n.key] = now]
                   ELSE entered
     /\ closed' = IF n.column = "inprogress" /\ newColumn # "inprogress"
                  THEN [closed EXCEPT ![n.key] = @ + (now - entered[n.key])]
                  ELSE closed
     /\ loads' = loads + 1
     /\ UNCHANGED <<now, storageAvailable, details, updateIntervalId, nextKey, call, starts, scheduled>>

\* updateTimerDisplays that also writes the elapsed time into note.timeSpent
updateTimerDisplaysAccumulating ==
  /\ updateIntervalId # Null
  /\ display' = [x \in DOMAIN display |->
                   IF x \in getActiveTimerIds(activeTimers)
                   THEN getElapsedTime(activeTimers, x, now)
                   ELSE display[x]]
  /\ notes' = [i \in 1..Len(notes) |->
                 IF notes[i].id \in getActiveTimerIds(activeTimers)
                 THEN [notes[i] EXCEPT !.timeSpent =
                         getElapsedTime(activeTimers, notes[i].id, now)]
                 ELSE notes[i]]
  /\ <<display', notes'>> # <<display, notes>>
  /\ UNCHANGED <<now, stored, storageAvailable, details, activeTimers,
                 updateIntervalId, modal, nextKey, entered, closed, moves, moved, loads, call, starts, scheduled>>

\* updateTimerDisplays: the callback of the one-second interval
updateTimerDisplays ==
  /\ updateIntervalId # Null
  /\ display' = [x \in DOMAIN display |->
                   IF x \in getActiveTimerIds(activeTimers)
                   THEN getElapsedTime(activeTimers, x, now)
                   ELSE display[x]]
  /\ display' # display
  /\ UNCHANGED <<now, notes, stored, storageAvailable, details, activeTimers,
                 updateIntervalId, modal, nextKey, entered, closed, moves, moved, loads, call, starts, scheduled>>

\* a page reload: a new TimerManager, then init()
init ==
  LET loaded == loadNotes(stored)
  IN /\ notes' = loaded
     /\ display' = renderNotes(loaded, now)
     /\ activeTimers' = initializeTimers(loaded, EmptyTimers)
     /\ updateIntervalId' = UpdateTimerDisplays
     /\ scheduled' = setInterval(NoIntervals, UpdateTimerDisplays)
     /\ modal' = NoModal
     /\ UNCHANGED <<now, stored, storageAvailable, details, nextKey, entered, closed,
                    moves, moved, loads, call, starts>>

Next ==
  \/ Advance
  \/ \E text \in RawTexts, column \in Columns : handleFormSubmit(text, column)
  \/ \E noteId \in NoteIds(notes) : openTaskModal(noteId)
  \/ closeModal
  \/ \E c \in Contents \cup {EmptyContent, BlankContent} :
       /\ modal.kind = "add" => c \in {Prefilled, EmptyContent, BlankContent}
       /\ saveTask(c)
  \/ \E noteId \in NoteIds(notes) : deleteNote(noteId)
  \/ \E noteId \in NoteIds(notes), newColumn \in Columns : handleDrop(noteId, newColumn)
  \/ updateTimerDisplays
  \/ init

Spec == Init /\ [][Next]_vars

\* ---- the TimerManager on its own ----------------------------------------------
\* a client calling the methods of a TimerManager with any arguments, 0
\* standing for a missing or falsy one
ArgIds == 0..MaxNoteId
ArgTimes == 0..MaxTime

\* the start instants direct calls gave noteId since its last stop
startsOf(noteId) == IF noteId \in DOMAIN starts THEN starts[noteId] ELSE <<>>

\* timerManager.startTimer(noteId, startedAt)
callStartTimer(noteId, startedAt) ==
  /\ Len(startsOf(noteId)) < MaxStarts
  /\ activeTimers' = startTimer(activeTimers, noteId, startedAt)
  /\ call' = [op |-> "startTimer", noteId |-> noteId, startedAt |-> startedAt,
              ret |-> Null, error |-> startTimerFails(noteId, startedAt)]
  /\ starts' = IF startTimerFails(noteId, startedAt)
               THEN starts
               ELSE [x \in (DOMAIN starts) \cup {noteId} |->
                       IF x = noteId THEN Append(startsOf(noteId), startedAt)
                       ELSE starts[x]]
  /\ UNCHANGED <<now, notes, stored, storageAvailable, details, updateIntervalId, display,
                 modal, nextKey, entered, closed, moves, moved, loads, scheduled>>

\* timerManager.stopTimer(noteId)
callStopTimer(noteId) ==
  /\ activeTimers' = stopTimerMap(activeTimers, noteId)
  /\ call' = [op |-> "stopTimer", noteId |-> noteId, startedAt |-> Null,
              ret |-> stopTimerElapsed(activeTimers, noteId, now), error |-> FALSE,
              starts |-> startsOf(noteId)]
  /\ starts' = [x \in (DOMAIN starts) \ {noteId} |-> starts[x]]
  /\ UNCHANGED <<now, notes, stored, storageAvailable, details, updateIntervalId, display,
                 modal, nextKey, entered, closed, moves, moved, loads, scheduled>>

\* timerManager.getElapsedTime(noteId, currentTime)
callGetElapsedTime(noteId, currentTime) ==
  /\ call' = [op |-> "getElapsedTime", noteId |-> noteId, currentTime |-> currentTime,
              ret |-> getElapsedTime(activeTimers, noteId, currentTime)]
  /\ UNCHANGED <<now, notes, stored, storageAvailable, details, activeTimers, updateIntervalId,
                 display, modal, nextKey, entered, closed, moves, moved, loads, starts, scheduled>>

\* timerManager.getElapsedTime(noteId): currentTime defaults to Date.now()
callGetElapsedTimeNow(noteId) == callGetElapsedTime(noteId, now)

\* timerManager.isTimerActive(noteId)
callIsTimerActive(noteId) ==
  /\ call' = [op |-> "isTimerActive", noteId |-> noteId,
              active |-> isTimerActive(activeTimers, noteId)]
  /\ UNCHANGED <<now, notes, stored, storageAvailable, details, activeTimers, updateIntervalId,
                 display, modal, nextKey, entered, closed, moves, moved, loads, starts, scheduled>>

\* timerManager.getActiveTimerIds()
callGetActiveTimerIds ==
  /\ call' = [op |-> "getActiveTimerIds", ids |-> getActiveTimerIds(activeTimers)]
  /\ UNCHANGED <<now, notes, stored, storageAvailable, details, activeTimers, updateIntervalId,
                 display, modal, nextKey, entered, closed, moves, moved, loads, starts, scheduled>>

\* timerManager.startUpdateLoop(updateCallback)
callStartUpdateLoop(updateCallback) ==
  /\ startUpdateLoop(updateCallback)
  /\ call' = [op |-> "startUpdateLoop", callback |-> updateCallback]
  /\ UNCHANGED <<now, notes, stored, storageAvailable, details, activeTimers, display,
                 modal, nextKey, entered, closed, moves, moved, loads, starts>>

\* timerManager.stopUpdateLoop()
callStopUpdateLoop ==
  /\ stopUpdateLoop
  /\ call' = [op |-> "stopUpdateLoop"]
  /\ UNCHANGED <<now, notes, stored, storageAvailable, details, activeTimers, display,
                 modal, nextKey, entered, closed, moves, moved, loads, starts>>

\* timerManager.pauseAllTimers()
callPauseAllTimers ==
  /\ pauseAllTimers
  /\ call' = [op |-> "pauseAllTimers", at |-> now]
  /\ UNCHANGED <<now, notes, stored, storageAvailable, details, display,
                 modal, nextKey, entered, closed, moves, moved, loads, starts>>

\* timerManager.resumeAllTimers(updateCallback); pausedAt is the instant of
\* the pause this call ends, Null when the call before it was no pause
callResumeAllTimers(updateCallback) ==
  /\ resumeAllTimers(updateCallback)
  /\ call' = [op |-> "resumeAllTimers", callback |-> updateCallback,
              pausedAt |-> IF call.op = "pauseAllTimers" THEN call.at ELSE Null]
  /\ UNCHANGED <<now, notes, stored, storageAvailable, details, display,
                 modal, nextKey, entered, closed, moves, moved, loads, starts>>

NextTimer ==
  \/ Advance
  \/ \E noteId \in ArgIds, startedAt \in ArgTimes : callStartTimer(noteId, startedAt)
  \/ \E noteId \in ArgIds : callStopTimer(noteId)
  \/ \E noteId \in ArgIds, currentTime \in ArgTimes : callGetElapsedTime(noteId, currentTime)
  \/ \E noteId \in ArgIds : callGetElapsedTimeNow(noteId)
  \/ \E noteId \in ArgIds : callIsTimerActive(noteId)
  \/ callGetActiveTimerIds
  \/ \E updateCallback \in Callbacks : callStartUpdateLoop(updateCallback)
  \/ callStopUpdateLoop
  \/ callPauseAllTimers
  \/ \E updateCallback \in Callbacks : callResumeAllTimers(updateCallback)

SpecTimer == Init /\ [][NextTimer]_vars

\* ---- formatDueDate (src/src/js/main.js) -----------------------------------------
\* Instants are counted here in half hours of local time from the midnight
\* that starts day 0.  The Date constructor works in the local time zone: a
\* zone without daylight saving, or one whose clocks go forward ("spring") or
\* back ("fall") by one hour in the night of day 1.
HalfHoursPerHour == 2
HalfHoursPerDay == 48
Zones == {"fixed", "spring", "fall"}
DayLength(zone, d) ==
  IF d # 1 THEN HalfHoursPerDay
  ELSE CASE zone = "spring" -> HalfHoursPerDay - HalfHoursPerHour
         [] zone = "fall" -> HalfHoursPerDay + HalfHoursPerHour
         [] OTHER -> HalfHoursPerDay

\* the instant of the local midnight that starts day d
RECURSIVE Midnight(_, _)
Midnight(zone, d) == IF d = 0 THEN 0 ELSE Midnight(zone, d - 1) + DayLength(zone, d - 1)

\* the calendar day (getFullYear, getMonth, getDate) an instant falls on
DayOf(zone, t) ==
  CHOOSE d \in 0..(MaxDueDay + 1) : Midnight(zone, d) <= t /\ t < Midnight(zone, d + 1)

\* new Date(date.getFullYear(), date.getMonth(), date.getDate()).getTime()
MidnightOf(zone, t) == Midnight(zone, DayOf(zone, t))

diffMs(timestamp, at) == timestamp - at
diffDays(timestamp, at, zone) ==
  (MidnightOf(zone, timestamp) - MidnightOf(zone, at)) \div HalfHoursPerDay
diffHours(timestamp, at) == diffMs(timestamp, at) \div HalfHoursPerHour

\* formatDueDate with "diffHours <= 48" in the check of the 48 hours
formatDueDateUpTo48(timestamp, at, zone) ==
  IF diffMs(timestamp, at) < 0
  THEN [text |-> "Overdue", hours |-> Null, isOverdue |-> TRUE, isUrgent |-> FALSE]
  ELSE IF diffDays(timestamp, at, zone) = 0
  THEN [text |-> "Due today", hours |-> Null, isOverdue |-> FALSE, isUrgent |-> TRUE]
  ELSE IF diffDays(timestamp, at, zone) = 1
  THEN [text |-> "Due tomorrow", hours |-> Null, isOverdue |-> FALSE, isUrgent |-> TRUE]
  ELSE IF diffHours(timestamp, at) <= 48 /\ diffHours(timestamp, at) >= 0
  THEN [text |-> "Due in h", hours |-> diffHours(timestamp, at),
        isOverdue |-> FALSE, isUrgent |-> TRUE]
  ELSE [text |-> "Due", hours |-> Null, isOverdue |-> FALSE, isUrgent |-> FALSE]

\* formatDueDate(timestamp) called at instant `at`; text without the date string
formatDueDate(timestamp, at, zone) ==
  IF diffMs(timestamp, at) < 0
  THEN [text |-> "Overdue", hours |-> Null, isOverdue |-> TRUE, isUrgent |-> FALSE]
  ELSE IF diffDays(timestamp, at, zone) = 0
  THEN [text |-> "Due today", hours |-> Null, isOverdue |-> FALSE, isUrgent |-> TRUE]
  ELSE IF diffDays(timestamp, at, zone) = 1
  THEN [text |-> "Due tomorrow", hours |-> Null, isOverdue |-> FALSE, isUrgent |-> TRUE]
  ELSE IF diffHours(timestamp, at) < 48 /\ diffHours(timestamp, at) >= 0
  THEN [text |-> "Due in h", hours |-> diffHours(timestamp, at),
        isOverdue |-> FALSE, isUrgent |-> TRUE]
  ELSE [text |-> "Due", hours |-> Null, isOverdue |-> FALSE, isUrgent |-> FALSE]

\* the instants formatDueDate is called at, and the due instants it is given
CallInstants(zone) == 0..(Midnight(zone, MaxNowDay + 1) - 1)
DueInstants(zone) == 0..(Midnight(zone, MaxDueDay + 1) - 1)

\* a call of formatDueDate
callFormatDueDate(timestamp, at, zone) ==
  /\ call' = [op |-> "formatDueDate", timestamp |-> timestamp, at |-> at,
              zone |-> zone, info |-> formatDueDate(timestamp, at, zone)]
  /\ UNCHANGED <<now, notes, stored, storageAvailable, details, activeTimers, updateIntervalId,
                 display, modal, nextKey, entered, closed, moves, moved, loads,
                 starts, scheduled>>

\* each input is tried once, on a fresh page
NextDueDate ==
  /\ call = NoCall
  /\ \E zone \in Zones : \E at \in CallInstants(zone), timestamp \in DueInstants(zone) :
       callFormatDueDate(timestamp, at, zone)

SpecDueDate == Init /\ [][NextDueDate]_vars

\* ---- formatElapsedTime, formatCompletedTime (src/js/timer.js) -----------------
\* strings are sequences of characters
DigitChars == <<"0", "1", "2", "3", "4", "5", "6", "7", "8", "9">>

\* String(n) for an integer n >= 0
RECURSIVE String(_)
String(n) ==
  IF n < 10 THEN <<DigitChars[n + 1]>>
  ELSE String(n \div 10) \o <<DigitChars[(n % 10) + 1]>>

\* s.padStart(targetLength, padChar) for a one-character pad
RECURSIVE padStart(_, _, _)
padStart(s, targetLength, padChar) ==
  IF Len(s) >= targetLength THEN s
  ELSE padStart(<<padChar>> \o s, targetLength, padChar)

\* formatElapsedTime with padStart(1, '0')
formatElapsedTimeUnpadded(milliseconds) ==
  IF milliseconds < 0
  THEN <<"0", "0", ":", "0", "0", ":", "0", "0">>
  ELSE LET totalSeconds == milliseconds \div 1000
           hours == totalSeconds \div 3600
           minutes == (totalSeconds % 3600) \div 60
           seconds == totalSeconds % 60
       IN padStart(String(hours), 1, "0") \o <<":">> \o
          padStart(String(minutes), 1, "0") \o <<":">> \o
          padStart(String(seconds), 1, "0")

formatElapsedTime(milliseconds) ==
  IF milliseconds < 0
  THEN <<"0", "0", ":", "0", "0", ":", "0", "0">>
  ELSE LET totalSeconds == milliseconds \div 1000
           hours == totalSeconds \div 3600
           minutes == (totalSeconds % 3600) \div 60
           seconds == totalSeconds % 60
           hh == padStart(String(hours), 2, "0")
           mm == padStart(String(minutes), 2, "0")
           ss == padStart(String(seconds), 2, "0")
       IN hh \o <<":">> \o mm \o <<":">> \o ss

\* 'No time tracked'
NoTimeTracked ==
  <<"N", "o", " ", "t", "i", "m", "e", " ", "t", "r", "a", "c", "k", "e", "d">>
\* `${n} ${unit}${n !== 1 ? 's' : ''}`
Part(n, unit) == String(n) \o <<" ">> \o unit \o (IF n # 1 THEN <<"s">> ELSE <<>>)
\* parts.join(' ')
RECURSIVE join(_)
join(parts) ==
  IF Len(parts) = 0 THEN <<>>
  ELSE IF Len(parts) = 1 THEN parts[1]
  ELSE parts[1] \o <<" ">> \o join(Tail(parts))

\* formatCompletedTime that pushes the seconds only when seconds > 0
formatCompletedTimeNoZero(milliseconds) ==
  IF milliseconds = Null \/ milliseconds <= 0
  THEN NoTimeTracked
  ELSE LET totalSeconds == milliseconds \div 1000
           hours == totalSeconds \div 3600
           minutes == (totalSeconds % 3600) \div 60
           seconds == totalSeconds % 60
           p1 == IF hours > 0 THEN <<Part(hours, <<"h", "o", "u", "r">>)>> ELSE <<>>
           p2 == IF minutes > 0
                 THEN Append(p1, Part(minutes, <<"m", "i", "n", "u", "t", "e">>))
                 ELSE p1
           p3 == IF seconds > 0
                 THEN Append(p2, Part(seconds, <<"s", "e", "c", "o", "n", "d">>))
                 ELSE p2
       IN join(p3)

formatCompletedTime(milliseconds) ==
  IF milliseconds = Null \/ milliseconds <= 0
  THEN NoTimeTracked
  ELSE LET totalSeconds == milliseconds \div 1000
           hours == totalSeconds \div 3600
           minutes == (totalSeconds % 3600) \div 60
           seconds == totalSeconds % 60
           p1 == IF hours > 0 THEN <<Part(hours, <<"h", "o", "u", "r">>)>> ELSE <<>>
           p2 == IF minutes > 0
                 THEN Append(p1, Part(minutes, <<"m", "i", "n", "u", "t", "e">>))
                 ELSE p1
           p3 == IF seconds > 0 \/ Len(p2) = 0
                 THEN Append(p2, Part(seconds, <<"s", "e", "c", "o", "n", "d">>))
                 ELSE p2
       IN join(p3)

\* the durations the formatters are given: below zero, zero, and every mix of
\* few and many hours, minutes and seconds, with and without a rest of ms
Durations ==
  {-5000, -5, -1} \cup
  { ((h * 60 + m) * 60 + sec) * 1000 + r :
      h \in {0, 1, 2, MaxHours - 1, MaxHours}, m \in {0, 1, 30, 59},
      sec \in {0, 1, 30, 59}, r \in {0, 1, 999} }

callFormatElapsedTime(milliseconds) ==
  /\ call' = [op |-> "formatElapsedTime", milliseconds |-> milliseconds,
              out |-> formatElapsedTime(milliseconds)]
  /\ UNCHANGED <<now, notes, stored, storageAvailable, details, activeTimers, updateIntervalId,
                 display, modal, nextKey, entered, closed, moves, moved, loads,
                 starts, scheduled>>

callFormatCompletedTime(milliseconds) ==
  /\ call' = [op |-> "formatCompletedTime", milliseconds |-> milliseconds,
              out |-> formatCompletedTime(milliseconds)]
  /\ UNCHANGED <<now, notes, stored, storageAvailable, details, activeTimers, updateIntervalId,
                 display, modal, nextKey, entered, closed, moves, moved, loads,
                 starts, scheduled>>

\* each input is tried once, on a fresh page
NextFormat ==
  /\ call = NoCall
  /\ \/ \E milliseconds \in Durations : callFormatElapsedTime(milliseconds)
     \/ \E milliseconds \in Durations : callFormatCompletedTime(milliseconds)

SpecFormat == Init /\ [][NextFormat]_vars

\* ---- the details view (openTaskDetailsModal, src/src/js/main.js) ---------------
\* the methods class TimerManager defines
TimerManagerMethods ==
  { "startTimer", "stopTimer", "getElapsedTime", "isTimerActive",
    "getActiveTimerIds", "clearAllTimers", "startUpdateLoop", "stopUpdateLoop",
    "pauseAllTimers", "resumeAllTimers" }

\* timerManager[method](...) throws a TypeError when the class has no such method
Throws(method) == method \notin TimerManagerMethods

\* note.startedAt && (note.timeSpent > 0 || note.column === 'inprogress')
ShowsTimeSpent(note) ==
  note.startedAt # Null /\ (note.timeSpent > 0 \/ note.column = "inprogress")

\* the branch that evaluates timerManager.getTimerStartTime(note.id)
ReadsTimerStart(note) == ShowsTimeSpent(note) /\ note.column = "inprogress"

\* timeSpentDisplay on the branches that evaluate to a value
timeSpentDisplay(note) ==
  IF ShowsTimeSpent(note) /\ note.column # "inprogress"
  THEN formatCompletedTime(note.timeSpent)
  ELSE <<>>

\* handleButtonClick on a card: openTaskDetailsModal(notes.find(n => n.id === noteId));
\* the TypeError leaves the handler before document.body.appendChild(modal)
openTaskDetailsModal(noteId) ==
  LET note == notes[findIndex(notes, noteId)]
  IN /\ modal.kind = "none"
     /\ details.kind = "none"
     /\ findIndex(notes, noteId) # 0
     /\ details' = IF ReadsTimerStart(note) /\ Throws("getTimerStartTime")
                   THEN [kind |-> "error", id |-> noteId, timeSpentDisplay |-> <<>>]
                   ELSE [kind |-> "open", id |-> noteId,
                         timeSpentDisplay |-> timeSpentDisplay(note)]
     /\ UNCHANGED <<now, notes, stored, storageAvailable, activeTimers,
                    updateIntervalId, display, modal, nextKey, entered, closed,
                    moves, moved, loads, call, starts, scheduled>>

\* .modalClose / .btnClose / backdrop of the details modal: modal.remove();
\* .btnDelete is this step followed by deleteNote(note.id) on the board
closeTaskDetailsModal ==
  /\ details.kind = "open"
  /\ details' = NoDetails
  /\ UNCHANGED <<now, notes, stored, storageAvailable, activeTimers,
                 updateIntervalId, display, modal, nextKey, entered, closed,
                 moves, moved, loads, call, starts, scheduled>>

\* .btnEdit of the details modal: closeModal(); openTaskModal(note)
editFromDetails ==
  /\ details.kind = "open"
  /\ details' = NoDetails
  /\ modal' = [kind |-> "edit", id |-> details.id,
               ref |-> findIndex(notes, details.id), column |-> "todo"]
  /\ UNCHANGED <<now, notes, stored, storageAvailable, activeTimers,
                 updateIntervalId, display, nextKey, entered, closed,
                 moves, moved, loads, call, starts, scheduled>>

\* the board with the details view: the details modal covers the board, so
\* the board is used while none is open; the clock and the interval go on; a
\* behaviour is followed up to the uncaught TypeError
NextDetails ==
  \/ details.kind = "none" /\ Next
  \/ \E noteId \in NoteIds(notes) : openTaskDetailsModal(noteId)
  \/ closeTaskDetailsModal
  \/ editFromDetails
  \/ details.kind = "open" /\ (Advance \/ updateTimerDisplays)

SpecDetails == Init /\ [][NextDetails]_vars

\* ---- the legacy board (src/js/main.js, lines 1-256) --------------------------
\* The older board keeps startTime (ms) and totalTime (whole seconds) in each
\* note and does its time keeping inside renderNotes.  Its clock moves in
\* half seconds.  display holds, per note id, the label and the whole seconds
\* of the .timer text reached through [data-note-id].
HalfSecond == 500
MsPerSecond == 1000
LegacyPriorities == {"low", "high"}

\* the object addNote builds; key is the history name of the object and
\* createdAt the second toLocaleString() prints
legacyNewNote(text, column, priority, t, key) ==
  [ key |-> key,
    id |-> t,
    text |-> text,
    column |-> column,
    priority |-> priority,
    createdAt |-> t \div MsPerSecond,
    startTime |-> Null,
    totalTime |-> Null ]

\* init: notes.map(note => ({ ... })), each field with its "||" default
legacyNormalize(n, t) ==
  [ key |-> n.key,
    id |-> n.id,
    text |-> n.text,
    column |-> IF n.column = "" THEN "todo" ELSE n.column,
    priority |-> IF n.priority = "" THEN "low" ELSE n.priority,
    createdAt |-> IF n.createdAt = Null THEN t \div MsPerSecond ELSE n.createdAt,
    startTime |-> IF n.startTime = Null THEN Null ELSE n.startTime,
    totalTime |-> IF n.totalTime = Null THEN Null ELSE n.totalTime ]

\* what renderNotes' forEach writes into one note: "if (!note.startTime)" in
\* inprogress, "if (!note.totalTime && note.startTime)" in done, where a
\* totalTime of null and one of 0 are both falsy
legacyRenderNote(n, t) ==
  IF n.column = "inprogress" /\ n.startTime = Null
  THEN [n EXCEPT !.startTime = t]
  ELSE IF n.column = "done" /\ n.totalTime = Null /\ n.startTime # Null
  THEN [n EXCEPT !.totalTime = (t - n.startTime) \div MsPerSecond]
  ELSE n

legacyRendered(ns, t) == [i \in 1..Len(ns) |-> legacyRenderNote(ns[i], t)]

\* activeTimers after the forEach from note i on: startLiveTimer for an
\* inprogress note, delete for a done note
RECURSIVE legacyTimersFrom(_, _, _)
legacyTimersFrom(ns, i, timers) ==
  IF i > Len(ns) THEN timers
  ELSE IF ns[i].column = "inprogress"
  THEN legacyTimersFrom(ns, i + 1,
         [x \in (DOMAIN timers) \cup {ns[i].id} |-> TRUE])
  ELSE IF ns[i].column = "done"
  THEN legacyTimersFrom(ns, i + 1,
         [x \in (DOMAIN timers) \ {ns[i].id} |-> TRUE])
  ELSE legacyTimersFrom(ns, i + 1, timers)

\* createNoteElement: the .timer text of the card, built before the forEach
\* writes into the note
legacyTimerText(n, t) ==
  IF n.column = "done" /\ n.totalTime # Null
  THEN [label |-> "Total Time", seconds |-> n.totalTime]
  ELSE IF n.column = "inprogress" /\ n.startTime # Null
  THEN [label |-> "In Progress", seconds |-> (t - n.startTime) \div MsPerSecond]
  ELSE [label |-> "", seconds |-> 0]

\* the first card with the id in document order: the columns in the order
\* todo, inprogress, done, each in the order of the array
legacyFirstCard(ns, noteId) ==
  CHOOSE i \in 1..Len(ns) :
    /\ ns[i].id = noteId
    /\ \A j \in 1..Len(ns) :
         (j # i /\ ns[j].id = noteId) =>
           \/ ColumnRank(ns[i].column) < ColumnRank(ns[j].column)
           \/ ColumnRank(ns[i].column) = ColumnRank(ns[j].column) /\ i < j

\* renderNotes(notes) on the array ns, which the caller has saved
legacyRenderNotes(ns) ==
  /\ notes' = legacyRendered(ns, now)
  /\ stored' = IF legacyRendered(ns, now) # ns
               THEN saveNotes(legacyRendered(ns, now))
               ELSE saveNotes(ns)
  /\ activeTimers' = legacyTimersFrom(ns, 1, EmptyTimers)
  /\ display' = [x \in NoteIds(ns) |->
                   legacyTimerText(ns[legacyFirstCard(ns, x)], now)]

\* the clock moves between handlers
legacyAdvance ==
  /\ now + HalfSecond <= 1 + MaxLegacySteps * HalfSecond
  /\ now' = now + HalfSecond
  /\ UNCHANGED <<notes, stored, storageAvailable, details, activeTimers,
                 updateIntervalId, display, modal, nextKey, entered, closed,
                 moves, moved, loads, call, starts, scheduled>>

\* handleFormSubmit: empty text flashes the input, other text goes to addNote
legacyHandleFormSubmit(text, column, priority) ==
  /\ nextKey <= MaxCreated
  /\ IF Len(trim(text)) = 0
     THEN UNCHANGED <<notes, stored, activeTimers, display, nextKey>>
     ELSE /\ legacyRenderNotes(
               Append(notes, legacyNewNote(trim(text), column, priority, now, nextKey)))
          /\ nextKey' = nextKey + 1
  /\ UNCHANGED <<now, storageAvailable, details, updateIntervalId, modal,
                 entered, closed, moves, moved, loads, call, starts, scheduled>>

\* handleDeleteClick and deleteNote
legacyDeleteNote(noteId) ==
  /\ noteId \in NoteIds(notes)
  /\ legacyRenderNotes(SelectSeq(notes, LAMBDA n : n.id # noteId))
  /\ UNCHANGED <<now, storageAvailable, details, updateIntervalId, modal, nextKey,
                 entered, closed, moves, moved, loads, call, starts, scheduled>>

\* a drop of the card onto a column: the drag-and-drop collaborator of the
\* legacy board sets note.column, saves and renders
legacyDrop(noteId, newColumn) ==
  /\ moves < MaxMoves
  /\ findIndex(notes, noteId) # 0
  /\ legacyRenderNotes([notes EXCEPT ![findIndex(notes, noteId)].column = newColumn])
  /\ moves' = moves + 1
  /\ UNCHANGED <<now, storageAvailable, details, updateIntervalId, modal, nextKey,
                 entered, closed, moved, loads, call, starts, scheduled>>

\* the callback of the interval startLiveTimer set for noteId
legacyLiveTimer(noteId) ==
  LET i == findIndex(notes, noteId)
  IN /\ noteId \in DOMAIN activeTimers
     /\ IF i = 0 \/ notes[i].column # "inprogress" \/ notes[i].startTime = Null
        THEN /\ activeTimers' = [x \in (DOMAIN activeTimers) \ {noteId} |-> TRUE]
             /\ UNCHANGED display
        ELSE /\ display' = [display EXCEPT ![noteId] =
                              [label |-> "In Progress",
                               seconds |-> (now - notes[i].startTime) \div MsPerSecond]]
             /\ UNCHANGED activeTimers
     /\ UNCHANGED <<now, notes, stored, storageAvailable, details, updateIntervalId,
                    modal, nextKey, entered, closed, moves, moved, loads, call,
                    starts, scheduled>>

\* a page reload: init() loads, normalizes, saves and renders
legacyInit ==
  LET loaded == loadNotes(stored)
      normalized == [i \in 1..Len(loaded) |-> legacyNormalize(loaded[i], now)]
  IN /\ legacyRenderNotes(normalized)
     /\ UNCHANGED <<now, storageAvailable, details, updateIntervalId, modal, nextKey,
                    entered, closed, moves, moved, loads, call, starts, scheduled>>

NextLegacy ==
  \/ legacyAdvance
  \/ \E text \in RawTexts, column \in Columns, priority \in LegacyPriorities :
       legacyHandleFormSubmit(text, column, priority)
  \/ \E noteId \in NoteIds(notes) : legacyDeleteNote(noteId)
  \/ \E noteId \in NoteIds(notes), newColumn \in Columns : legacyDrop(noteId, newColumn)
  \/ \E noteId \in DOMAIN activeTimers : legacyLiveTimer(noteId)
  \/ legacyInit

\* the legacy page on a first visit: no TimerManager, no interval yet
InitLegacy ==
  /\ now = 1
  /\ storageAvailable \in BOOLEAN
  /\ stored = <<>>
  /\ notes = <<>>
  /\ activeTimers = EmptyTimers
  /\ updateIntervalId = Null
  /\ display = EmptyTimers
  /\ modal = NoModal
  /\ nextKey = 1
  /\ entered = [k \in {} |-> 0]
  /\ closed = [k \in {} |-> 0]
  /\ moves = 0
  /\ moved = {}
  /\ loads = 0
  /\ call = NoCall
  /\ starts = [x \in {} |-> <<>>]
  /\ scheduled = NoIntervals
  /\ details = NoDetails

SpecLegacy == InitLegacy /\ [][NextLegacy]_vars

\* ---- the notes as tasks -----------------------------------------------------
Keys(ns) == { ns[i].key : i \in 1..Len(ns) }

\* the note carrying history key k
TaskOf(ns, k) == ns[CHOOSE i \in 1..Len(ns) : ns[i].key = k]

\* a drop that takes the note it acts on from column `from` to column `to`
DropStep(noteId, from, to) ==
  /\ findIndex(notes, noteId) # 0
  /\ notes[findIndex(notes, noteId)].column = from
  /\ handleDrop(noteId, to)

\* the key of the note a drop of noteId acts on
DroppedKey(noteId) == notes[findIndex(notes, noteId)].key

\* ---- claims -------------------------------------------------------------------
\* Several claims below already fail in the runs in which storage works; they
\* are stated for those runs (storageAvailable), so that what refutes them is
\* the code of main.js and timer.js alone.

\* C1: every task's timeSpent equals the sum of the durations of its closed
\* inprogress sessions (instant it left inprogress - instant it entered).
C1_TimeSpentIsClosedSessions ==
  storageAvailable =>
    \A i \in 1..Len(notes) : notes[i].timeSpent = closed[notes[i].key]

\* C2: for every task that stays in the task set, timeSpent never decreases
\* from one state to the next.
C2_Step ==
  \A k \in Keys(notes) \cap Keys(notes') :
    TaskOf(notes', k).timeSpent >= TaskOf(notes, k).timeSpent
\* C2, as a property of every step
C2_TimeSpentNeverDecreases == [][C2_Step]_vars

\* C2 witness: a task on the board has closed a session and accumulated time
C2_Witness ==
  \E i \in 1..Len(notes) :
    /\ notes[i].timeSpent > 0
    /\ notes[i].column = "done"
    /\ moves = 3

\* C3: every id in the active-session map is the id of a task of the task set
\* whose column is inprogress.
C3_SessionsBelongToInProgressTasks ==
  \A x \in DOMAIN activeTimers :
    \E i \in 1..Len(notes) : notes[i].id = x /\ notes[i].column = "inprogress"

\* C4: a task that moves from todo or done into inprogress at instant now has
\* startedAt = now afterwards and the registry holds a session for its id
\* that starts at now.
C4_Step ==
  \A noteId \in NoteIds(notes), from \in {"todo", "done"} :
    DropStep(noteId, from, "inprogress") =>
      /\ DroppedKey(noteId) \in Keys(notes')
      /\ TaskOf(notes', DroppedKey(noteId)).startedAt = now
      /\ noteId \in DOMAIN activeTimers'
      /\ activeTimers'[noteId] = now
\* C4, as a property of every step, runs with working storage
C4_EnteringStartsSession == [][storageAvailable => C4_Step]_vars

\* C5: a task that moves from inprogress to todo or done at instant now has
\* timeSpent = old timeSpent + (now - the session's start instant) afterwards
\* and its id is no longer in the active-session map.
C5_Step ==
  \A noteId \in NoteIds(notes), to \in {"todo", "done"} :
    DropStep(noteId, "inprogress", to) =>
      /\ DroppedKey(noteId) \in Keys(notes')
      /\ noteId \in DOMAIN activeTimers
      /\ TaskOf(notes', DroppedKey(noteId)).timeSpent =
           notes[findIndex(notes, noteId)].timeSpent + (now - activeTimers[noteId])
      /\ noteId \notin DOMAIN activeTimers'
\* C5, as a property of every step, runs with working storage
C5_LeavingAddsElapsed == [][storageAvailable => C5_Step]_vars

\* C6: a task that enters done from another column, from inprogress or
\* directly from todo, has completedAt = the instant of the move afterwards.
C6_Step ==
  \A noteId \in NoteIds(notes), from \in {"todo", "inprogress"} :
    DropStep(noteId, from, "done") =>
      /\ DroppedKey(noteId) \in Keys(notes')
      /\ TaskOf(notes', DroppedKey(noteId)).completedAt = now
\* C6, as a property of every step, runs with working storage
C6_EnteringDoneSetsCompletedAt == [][storageAvailable => C6_Step]_vars

\* C7: dropping a task onto the column it is already in leaves its startedAt,
\* completedAt and timeSpent and the registry's entry for it unchanged.
C7_Step ==
  \A noteId \in NoteIds(notes), c \in Columns :
    DropStep(noteId, c, c) =>
      LET old == notes[findIndex(notes, noteId)]
      IN /\ old.key \in Keys(notes')
         /\ TaskOf(notes', old.key).startedAt = old.startedAt
         /\ TaskOf(notes', old.key).completedAt = old.completedAt
         /\ TaskOf(notes', old.key).timeSpent = old.timeSpent
         /\ (noteId \in DOMAIN activeTimers) = (noteId \in DOMAIN activeTimers')
         /\ noteId \in DOMAIN activeTimers => activeTimers'[noteId] = activeTimers[noteId]
\* C7, as a property of every step
C7_SameColumnDropIsNoOp == [][C7_Step]_vars

\* C8: a task created in inprogress has startedAt = the creation instant and
\* an active session with that start; a task created in todo or done has no
\* startedAt, no completedAt, timeSpent = 0 and no session.
C8_Step ==
  nextKey' = nextKey + 1 =>
    LET n == TaskOf(notes', nextKey)
    IN IF n.column = "inprogress"
       THEN /\ n.startedAt = now
            /\ n.id \in DOMAIN activeTimers'
            /\ activeTimers'[n.id] = now
       ELSE /\ n.startedAt = Null
            /\ n.completedAt = Null
            /\ n.timeSpent = 0
            /\ n.id \notin DOMAIN activeTimers'
\* C8, as a property of every step, runs with working storage
C8_Creation == [][storageAvailable => C8_Step]_vars

\* C9: a task created in inprogress at t and moved to done at t + d, with no
\* move in between, has timeSpent = d, completedAt = t + d, startedAt = t and
\* no active session.
C9_Step ==
  \A noteId \in NoteIds(notes) :
    LET old == notes[findIndex(notes, noteId)]
    IN (/\ DropStep(noteId, "inprogress", "done")
        /\ old.key \notin moved
        /\ old.startedAt = old.createdAt) =>
         /\ old.key \in Keys(notes')
         /\ TaskOf(notes', old.key).timeSpent = now - old.createdAt
         /\ TaskOf(notes', old.key).completedAt = now
         /\ TaskOf(notes', old.key).startedAt = old.createdAt
         /\ noteId \notin DOMAIN activeTimers'
\* C9, as a property of every step, runs with working storage
C9_RoundTrip == [][storageAvailable => C9_Step]_vars

\* C10: deleting a task removes it from the task set and its id from the
\* active-session map; no elapsed time is added to any task, and all other
\* tasks and their sessions are unchanged.
C10_Step ==
  \A noteId \in NoteIds(notes) :
    deleteNote(noteId) =>
      \A i \in 1..Len(notes) :
        (notes[i].id = noteId) =>
          /\ notes[i].key \notin Keys(notes')
          /\ noteId \notin DOMAIN activeTimers'
          /\ \A j \in 1..Len(notes) :
               j # i => /\ notes[j].key \in Keys(notes')
                        /\ TaskOf(notes', notes[j].key) = notes[j]
          /\ \A x \in (DOMAIN activeTimers) \ {noteId} :
               x \in DOMAIN activeTimers' /\ activeTimers'[x] = activeTimers[x]
\* C10, as a property of every step, runs with working storage
C10_Delete == [][storageAvailable => C10_Step]_vars

\* the note the open edit form was opened on, as the task set holds it now
\* (0 when the task set holds no note with that id)
EditedIndex == IF modal.kind = "edit" THEN findIndex(notes, modal.id) ELSE 0

\* C11: a content edit saved with non-empty text sets the task's lastEditedAt
\* to the instant of the save and leaves its column, createdAt, startedAt,
\* completedAt, timeSpent and the timer registry unchanged.
C11_Step ==
  \A c \in Contents :
    (saveTask(c) /\ EditedIndex # 0) =>
      LET old == notes[EditedIndex]
      IN /\ old.key \in Keys(notes')
         /\ TaskOf(notes', old.key).lastEditedAt = now
         /\ TaskOf(notes', old.key).column = old.column
         /\ TaskOf(notes', old.key).createdAt = old.createdAt
         /\ TaskOf(notes', old.key).startedAt = old.startedAt
         /\ TaskOf(notes', old.key).completedAt = old.completedAt
         /\ TaskOf(notes', old.key).timeSpent = old.timeSpent
         /\ activeTimers' = activeTimers
\* C11, as a property of every step, runs with working storage
C11_ContentEdit == [][storageAvailable => C11_Step]_vars

\* C12: a column move leaves the task's text, description, priority, dueDate,
\* createdAt and lastEditedAt unchanged.
C12_Step ==
  \A noteId \in NoteIds(notes), from \in Columns, to \in Columns :
    DropStep(noteId, from, to) =>
      LET old == notes[findIndex(notes, noteId)]
      IN /\ old.key \in Keys(notes')
         /\ TaskOf(notes', old.key).text = old.text
         /\ TaskOf(notes', old.key).description = old.description
         /\ TaskOf(notes', old.key).priority = old.priority
         /\ TaskOf(notes', old.key).dueDate = old.dueDate
         /\ TaskOf(notes', old.key).createdAt = old.createdAt
         /\ TaskOf(notes', old.key).lastEditedAt = old.lastEditedAt
\* C12, as a property of every step
C12_MoveKeepsContent == [][C12_Step]_vars

\* the forms' inputs whose trimmed length is zero
EmptyTexts == { text \in RawTexts : Len(trim(text)) = 0 }
EmptyContents == { c \in {EmptyContent, BlankContent} : Len(trim(c.text)) = 0 }

\* C13: submitting the create form or saving the edit form with text whose
\* trimmed length is zero leaves the task set, every task's fields, the
\* persisted sequence and the timer registry unchanged, and every task in the
\* set has non-empty trimmed text.
C13_Step ==
  /\ \A text \in EmptyTexts, column \in Columns :
       handleFormSubmit(text, column) =>
         /\ notes' = notes
         /\ stored' = stored
         /\ activeTimers' = activeTimers
  /\ \A c \in EmptyContents :
       saveTask(c) =>
         /\ notes' = notes
         /\ stored' = stored
         /\ activeTimers' = activeTimers
  /\ \A i \in 1..Len(notes') : Len(trim(notes'[i].text)) > 0
\* C13, as a property of every step
C13_EmptyTextChangesNothing == [][C13_Step]_vars

\* C13 witness: the edit form is open on a task of a board that holds a task
\* saved by the add form and a task saved by the edit form; saving it with an
\* empty or blank name is enabled and leaves this very state
C13_Witness ==
  /\ modal.kind = "edit"
  /\ EditedIndex # 0
  /\ \E i \in 1..Len(notes) : notes[i].lastEditedAt # Null /\ notes[i].text = <<"b">>
  /\ \E i \in 1..Len(notes) : notes[i].lastEditedAt = Null /\ notes[i].text = <<"a">>

\* the tasks whose session startup restores
Running(ns) == { i \in 1..Len(ns) : ns[i].column = "inprogress" /\ ns[i].startedAt # Null }

\* C14: after startup from a persisted task sequence the active-session map
\* contains exactly the ids of the tasks with column = inprogress and a stored
\* startedAt, each with start instant equal to that stored startedAt.
C14_Step ==
  init =>
    /\ notes' = stored
    /\ DOMAIN activeTimers' = { notes'[i].id : i \in Running(notes') }
    /\ \A i \in Running(notes') : activeTimers'[notes'[i].id] = notes'[i].startedAt
\* C14, as a property of every step, runs with working storage
C14_StartupRestoresSessions == [][storageAvailable => C14_Step]_vars

\* C15: in every reachable state no two tasks in the task set have the same
\* id, including when two tasks are created at the same clock instant.
C15_UniqueIds ==
  storageAvailable =>
    \A i \in 1..Len(notes), j \in 1..Len(notes) : notes[i].id = notes[j].id => i = j

\* the step is a handler acting on the note at notes[i] itself
ActsOn(i) ==
  \/ \E c \in Contents : saveTask(c) /\ modal.kind = "edit" /\ modal.ref = i
  \/ \E noteId \in NoteIds(notes), newColumn \in Columns :
       handleDrop(noteId, newColumn) /\ findIndex(notes, noteId) = i
\* the step deletes the note at notes[i]
Deletes(i) == deleteNote(notes[i].id)

\* C16: when storage is unavailable the board keeps working from memory: a
\* task of the session stays in the in-memory task set, with its fields, after
\* any create, edit, column move or delete of another task, until it is
\* itself deleted.  (init is a page reload, which starts a new session; the
\* task the step edits or moves is left out, so the step is about another.)
C16_Step ==
  (~storageAvailable /\ ~init) =>
    \A i \in 1..Len(notes) :
      (~Deletes(i) /\ ~ActsOn(i)) =>
        /\ notes[i].key \in Keys(notes')
        /\ TaskOf(notes', notes[i].key) = notes[i]
\* C16, as a property of every step
C16_WorksFromMemory == [][C16_Step]_vars

\* C17: with storage available, after each mutating handler (create, content
\* edit, column move, delete) has run to completion the persisted task
\* sequence equals the in-memory task sequence.
C17_PersistedEqualsMemory == storageAvailable => stored = notes

\* C17 witness: a board that a create, a content edit, a column move and a
\* delete have all changed, with storage available
C17_Witness ==
  /\ storageAvailable
  /\ nextKey = 3
  /\ Len(notes) = 1
  /\ notes[1].lastEditedAt # Null
  /\ notes[1].key \in moved
  /\ notes[1].column = "done"

\* C18: the core calls load exactly once, at startup; no later operation
\* (create, edit, move, delete, tick) calls load or replaces the in-memory task
\* sequence with a freshly loaded one.  (init calls loadNotes() once; loads
\* counts every other call.)
C18_LoadOnceAtStartup == storageAvailable => loads = 0

\* C19: a periodic tick changes no task field and no registry entry: after any
\* tick every task's timeSpent, startedAt, completedAt and column and the
\* active-session map are the same as before it.
C19_Step ==
  updateTimerDisplays =>
    /\ Len(notes') = Len(notes)
    /\ \A i \in 1..Len(notes) :
         /\ notes'[i].timeSpent = notes[i].timeSpent
         /\ notes'[i].startedAt = notes[i].startedAt
         /\ notes'[i].completedAt = notes[i].completedAt
         /\ notes'[i].column = notes[i].column
    /\ activeTimers' = activeTimers
    /\ stored' = stored
\* C19, as a property of every step
C19_TickChangesNothing == [][C19_Step]_vars

\* C19 witness: a tick has brought the display of a running task to the
\* elapsed time of its session while the task still carries timeSpent = 0
C19_Witness ==
  \E i \in 1..Len(notes) :
    /\ notes[i].column = "inprogress"
    /\ notes[i].id \in DOMAIN activeTimers
    /\ notes[i].id \in DOMAIN display
    /\ notes[i].timeSpent = 0
    /\ notes[i].createdAt < now
    /\ notes[i].startedAt = notes[i].createdAt
    /\ moves = 0
    /\ \A j \in 1..Len(notes) : notes[j].createdAt < now /\ notes[j].lastEditedAt < now
    /\ display[notes[i].id] = now - activeTimers[notes[i].id]
    /\ display[notes[i].id] > 0

\* C20: startTimer called with a missing or falsy task id or a missing or
\* falsy start instant reports failure and leaves the active-session map
\* exactly as it was; with both arguments present it makes the map hold that
\* start instant for that id.
C20_Step ==
  \A noteId \in ArgIds, startedAt \in ArgTimes :
    callStartTimer(noteId, startedAt) =>
      IF noteId = Null \/ startedAt = Null
      THEN /\ call'.error
           /\ activeTimers' = activeTimers
      ELSE /\ ~call'.error
           /\ noteId \in DOMAIN activeTimers'
           /\ activeTimers'[noteId] = startedAt
           /\ \A x \in (DOMAIN activeTimers') \ {noteId} :
                x \in DOMAIN activeTimers /\ activeTimers'[x] = activeTimers[x]
\* C20, as a property of every step
C20_StartTimer == [][C20_Step]_vars

\* C20 witness: startTimer was called for an id without a start instant, it
\* reported the failure and the map, which holds another session, has no
\* entry for that id
C20_Witness ==
  /\ call.op = "startTimer"
  /\ call.noteId # Null
  /\ call.startedAt = Null
  /\ call.error
  /\ call.noteId \notin DOMAIN activeTimers
  /\ DOMAIN activeTimers # {}

\* C21: stopTimer(id) returns 0 and changes nothing when id has no session;
\* otherwise it returns now - the session's start instant and removes exactly
\* that id from the map, so an immediate second stopTimer(id) returns 0.
C21_Step ==
  \A noteId \in ArgIds :
    callStopTimer(noteId) =>
      /\ IF noteId \notin DOMAIN activeTimers
         THEN /\ call'.ret = 0
              /\ activeTimers' = activeTimers
         ELSE /\ call'.ret = now - activeTimers[noteId]
              /\ DOMAIN activeTimers' = (DOMAIN activeTimers) \ {noteId}
              /\ \A x \in DOMAIN activeTimers' : activeTimers'[x] = activeTimers[x]
      /\ stopTimerElapsed(activeTimers', noteId, now') = 0
\* C21, as a property of every step
C21_StopTimer == [][C21_Step]_vars

\* C21 witness: stopTimer has ended a session that had run for a while and
\* left the other session in the map
C21_Witness ==
  /\ call.op = "stopTimer"
  /\ call.ret > 0
  /\ call.noteId \notin DOMAIN activeTimers
  /\ DOMAIN activeTimers # {}

\* C22: getElapsedTime(id, now) returns 0 when id has no session and
\* now - start instant otherwise, and never changes the active-session map;
\* isTimerActive and getActiveTimerIds likewise leave the map unchanged.
C22_Step ==
  /\ \A noteId \in ArgIds, currentTime \in ArgTimes :
       callGetElapsedTime(noteId, currentTime) =>
         /\ call'.ret = IF noteId \in DOMAIN activeTimers
                        THEN currentTime - activeTimers[noteId]
                        ELSE 0
         /\ activeTimers' = activeTimers
  /\ \A noteId \in ArgIds :
       callIsTimerActive(noteId) =>
         /\ call'.active = (noteId \in DOMAIN activeTimers)
         /\ activeTimers' = activeTimers
  /\ callGetActiveTimerIds =>
       /\ call'.ids = DOMAIN activeTimers
       /\ activeTimers' = activeTimers
\* C22, as a property of every step
C22_ReadsLeaveMap == [][C22_Step]_vars

\* C22 witness: getElapsedTime has returned the elapsed time of a session the
\* map still holds, asked for an instant after its start
C22_Witness ==
  /\ call.op = "getElapsedTime"
  /\ call.noteId \in DOMAIN activeTimers
  /\ call.ret = call.currentTime - activeTimers[call.noteId]
  /\ call.ret > 0

\* C23: if startTimer(id, t1) is followed by startTimer(id, t2) with no
\* stopTimer(id) in between, a later stopTimer(id) at instant t3 returns
\* t3 - t2: the time from t1 to t2 is lost.
C23_Step ==
  \A noteId \in ArgIds :
    (callStopTimer(noteId) /\ Len(startsOf(noteId)) = 2) =>
      LET t1 == startsOf(noteId)[1]
          t2 == startsOf(noteId)[2]
      IN /\ call'.ret = now - t2
         /\ call'.ret = (now - t1) - (t2 - t1)
\* C23, as a property of every step
C23_SecondStartReplaces == [][C23_Step]_vars

\* C23 witness: stopTimer has ended a session started at t1 and started again
\* at a later t2, and returned only the time since t2
C23_Witness ==
  /\ call.op = "stopTimer"
  /\ Len(call.starts) = 2
  /\ call.starts[1] < call.starts[2]
  /\ call.ret > 0
  /\ call.ret = now - call.starts[2]

\* the number of live intervals
RECURSIVE LiveIntervals(_, _)
LiveIntervals(sched, cbs) ==
  IF cbs = {} THEN 0
  ELSE LET cb == CHOOSE c \in cbs : TRUE
       IN sched[cb] + LiveIntervals(sched, cbs \ {cb})

\* C24: at most one periodic tick is scheduled at any time, under any sequence
\* of startUpdateLoop, stopUpdateLoop, pauseAllTimers and resumeAllTimers:
\* startUpdateLoop while a tick is running changes nothing (the first callback
\* stays installed), and stopUpdateLoop while none is running changes nothing.
C24_Step ==
  /\ LiveIntervals(scheduled', Callbacks) <= 1
  /\ (updateIntervalId' # Null) = (LiveIntervals(scheduled', Callbacks) = 1)
  /\ \A updateCallback \in Callbacks :
       (callStartUpdateLoop(updateCallback) /\ updateIntervalId # Null) =>
         /\ updateIntervalId' = updateIntervalId
         /\ scheduled' = scheduled
  /\ (callStopUpdateLoop /\ updateIntervalId = Null) =>
       /\ updateIntervalId' = Null
       /\ scheduled' = scheduled
\* C24, as a property of every step
C24_OneTick == [][C24_Step]_vars

\* C24 witness: startUpdateLoop was called with a second callback while the
\* interval of the first was live, and that one interval is all there is
C24_Witness ==
  /\ call.op = "startUpdateLoop"
  /\ updateIntervalId # Null
  /\ call.callback # updateIntervalId
  /\ scheduled[updateIntervalId] = 1
  /\ LiveIntervals(scheduled, Callbacks) = 1

\* C25: pauseAllTimers stops the tick and leaves the active-session map
\* unchanged; after a pause of any length followed by resumeAllTimers,
\* getElapsedTime(id, now) and stopTimer(id) still give now - the original
\* start instant, so paused wall-clock time is counted.
C25_Step ==
  /\ callPauseAllTimers =>
       /\ updateIntervalId' = Null
       /\ LiveIntervals(scheduled', Callbacks) = 0
       /\ activeTimers' = activeTimers
  /\ \A updateCallback \in Callbacks :
       callResumeAllTimers(updateCallback) =>
         /\ updateIntervalId' # Null
         /\ DOMAIN activeTimers' = DOMAIN activeTimers
         /\ \A x \in DOMAIN activeTimers :
              /\ getElapsedTime(activeTimers', x, now') = now - activeTimers[x]
              /\ stopTimerElapsed(activeTimers', x, now') = now - activeTimers[x]
  \* the map holds the last start instant given, whatever pauses there were
  /\ \A x \in DOMAIN activeTimers' :
       x \in DOMAIN starts' => activeTimers'[x] = starts'[x][Len(starts'[x])]
\* C25, as a property of every step
C25_PauseKeepsSessions == [][C25_Step]_vars

\* C25 witness: resumeAllTimers has ended a pause that lasted a while, and a
\* session started before the pause is in the map with its start instant
C25_Witness ==
  /\ call.op = "resumeAllTimers"
  /\ call.pausedAt # Null
  /\ call.pausedAt < now
  /\ updateIntervalId # Null
  /\ \E x \in DOMAIN activeTimers :
       /\ activeTimers[x] < call.pausedAt
       /\ x \in DOMAIN starts
       /\ activeTimers[x] = starts[x][Len(starts[x])]
       /\ getElapsedTime(activeTimers, x, now) > now - call.pausedAt

\* the class the due-date rules give: first match of Overdue (due < now),
\* DueToday (same calendar day), DueTomorrow (next calendar day), DueSoon
\* (due - now < 48 h), Normal
DueClass(timestamp, at, zone) ==
  IF timestamp < at THEN "Overdue"
  ELSE IF DayOf(zone, timestamp) = DayOf(zone, at) THEN "Due today"
  ELSE IF DayOf(zone, timestamp) = DayOf(zone, at) + 1 THEN "Due tomorrow"
  ELSE IF timestamp - at < 48 * HalfHoursPerHour THEN "Due in h"
  ELSE "Due"

\* C26: formatDueDate classifies by first match in the order Overdue, DueToday,
\* DueTomorrow, DueSoon, Normal; Overdue has isOverdue true and isUrgent false,
\* the three middle classes have isUrgent true, Normal has both false; a due
\* instant 30 h ahead that falls on the next calendar day is DueTomorrow, and
\* a due instant equal to now is not Overdue.
C26_Classification ==
  call.op = "formatDueDate" =>
    /\ call.info.text = DueClass(call.timestamp, call.at, call.zone)
    /\ call.info.isOverdue = (call.info.text = "Overdue")
    /\ call.info.isUrgent = (call.info.text \in {"Due today", "Due tomorrow", "Due in h"})
    /\ call.timestamp = call.at => call.info.text # "Overdue"
    /\ (/\ call.timestamp - call.at = 30 * HalfHoursPerHour
        /\ DayOf(call.zone, call.timestamp) = DayOf(call.zone, call.at) + 1)
         => call.info.text = "Due tomorrow"

\* reading a formatted string back
IsDigits(s) == \A i \in 1..Len(s) : \E d \in 1..10 : DigitChars[d] = s[i]
DigitValue(c) == CHOOSE d \in 0..9 : DigitChars[d + 1] = c
RECURSIVE NumberOf(_)
NumberOf(s) ==
  IF Len(s) = 0 THEN 0
  ELSE NumberOf(SubSeq(s, 1, Len(s) - 1)) * 10 + DigitValue(s[Len(s)])
Colons(s) == { i \in 1..Len(s) : s[i] = ":" }

\* C27: formatElapsedTime(ms) returns 00:00:00 for every ms < 0, and for
\* ms >= 0 returns hours:minutes:seconds of floor(ms/1000) with minutes and
\* seconds in 0..59 and each field zero-padded to at least two digits
\* (3661000 gives 01:01:01, hours >= 100 take three or more digits).
C27_ElapsedFormat ==
  call.op = "formatElapsedTime" =>
    LET out == call.out
        ms == call.milliseconds
    IN IF ms < 0
       THEN out = <<"0", "0", ":", "0", "0", ":", "0", "0">>
       ELSE /\ Cardinality(Colons(out)) = 2
            /\ LET i == CHOOSE x \in Colons(out) : \A y \in Colons(out) : x <= y
                   j == CHOOSE x \in Colons(out) : \A y \in Colons(out) : x >= y
                   hh == SubSeq(out, 1, i - 1)
                   mm == SubSeq(out, i + 1, j - 1)
                   ss == SubSeq(out, j + 1, Len(out))
               IN /\ IsDigits(hh) /\ IsDigits(mm) /\ IsDigits(ss)
                  /\ Len(mm) = 2 /\ Len(ss) = 2
                  /\ NumberOf(mm) <= 59 /\ NumberOf(ss) <= 59
                  /\ (NumberOf(hh) * 60 + NumberOf(mm)) * 60 + NumberOf(ss) = ms \div 1000
                  /\ Len(hh) = IF NumberOf(hh) < 100 THEN 2 ELSE Len(String(NumberOf(hh)))
                  /\ NumberOf(hh) >= 100 => Len(hh) >= 3
            /\ ms = 3661000 => out = <<"0", "1", ":", "0", "1", ":", "0", "1">>

\* C27 witness: formatElapsedTime(3661000) has returned 01:01:01
C27_Witness ==
  /\ call.op = "formatElapsedTime"
  /\ call.milliseconds = 3661000
  /\ call.out = <<"0", "1", ":", "0", "1", ":", "0", "1">>

\* "n unit", singular when n = 1 and plural otherwise
Amount(n, unit) == String(n) \o <<" ">> \o (IF n = 1 THEN unit ELSE unit \o <<"s">>)
\* what is listed for ms > 0: the non-zero of hours, minutes and seconds,
\* largest first, and 0 seconds when all three are zero
Listed(ms) ==
  LET h == (ms \div 1000) \div 3600
      m == ((ms \div 1000) \div 60) % 60
      sec == (ms \div 1000) % 60
      hs == IF h # 0 THEN Amount(h, <<"h", "o", "u", "r">>) ELSE <<>>
      mins == IF m # 0 THEN Amount(m, <<"m", "i", "n", "u", "t", "e">>) ELSE <<>>
      secs == IF sec # 0 \/ (h = 0 /\ m = 0)
              THEN Amount(sec, <<"s", "e", "c", "o", "n", "d">>) ELSE <<>>
      hm == IF hs # <<>> /\ mins # <<>> THEN hs \o <<" ">> \o mins ELSE hs \o mins
  IN IF hm # <<>> /\ secs # <<>> THEN hm \o <<" ">> \o secs ELSE hm \o secs

\* C28: formatCompletedTime(ms) returns the no-time sentinel when ms is zero,
\* absent or negative; otherwise it lists, largest first, the hours, minutes
\* and seconds of floor(ms/1000) that are non-zero, each singular when 1 and
\* plural otherwise, and emits 0 seconds when all three are zero
\* (0 < ms < 1000); 90000 gives 1 minute 30 seconds and 3600000 gives 1 hour.
C28_CompletedFormat ==
  call.op = "formatCompletedTime" =>
    LET out == call.out
        ms == call.milliseconds
    IN /\ ms <= 0 => out = NoTimeTracked
       /\ ms > 0 => out = Listed(ms)
       /\ (ms > 0 /\ ms < 1000) =>
            out = <<"0", " ", "s", "e", "c", "o", "n", "d", "s">>
       /\ ms = 90000 =>
            out = <<"1", " ", "m", "i", "n", "u", "t", "e", " ",
                    "3", "0", " ", "s", "e", "c", "o", "n", "d", "s">>
       /\ ms = 3600000 => out = <<"1", " ", "h", "o", "u", "r">>

\* C28 witness: formatCompletedTime(90000) has returned 1 minute 30 seconds
C28_Witness ==
  /\ call.op = "formatCompletedTime"
  /\ call.milliseconds = 90000
  /\ call.out = <<"1", " ", "m", "i", "n", "u", "t", "e", " ",
                  "3", "0", " ", "s", "e", "c", "o", "n", "d", "s">>

\* C29: a task that leaves done keeps its completedAt unchanged while it is in
\* todo or inprogress, and when it cycles done to inprogress to done its
\* completedAt is overwritten with the instant of the second entry into done.
C29_Step ==
  /\ \A noteId \in NoteIds(notes), to \in {"todo", "inprogress"} :
       DropStep(noteId, "done", to) =>
         /\ DroppedKey(noteId) \in Keys(notes')
         /\ TaskOf(notes', DroppedKey(noteId)).completedAt =
              notes[findIndex(notes, noteId)].completedAt
  /\ \A k \in Keys(notes) \cap Keys(notes') :
       (/\ TaskOf(notes, k).column \in {"todo", "inprogress"}
        /\ TaskOf(notes', k).column \in {"todo", "inprogress"}) =>
         TaskOf(notes', k).completedAt = TaskOf(notes, k).completedAt
  /\ \A noteId \in NoteIds(notes) :
       (/\ DropStep(noteId, "inprogress", "done")
        /\ DroppedKey(noteId) \in moved) =>
         /\ DroppedKey(noteId) \in Keys(notes')
         /\ TaskOf(notes', DroppedKey(noteId)).completedAt = now
\* C29, as a property of every step
C29_CompletedAtOnCycles == [][C29_Step]_vars

\* C30: in every reachable state after a handler has completed, every task
\* with column = inprogress and a non-absent startedAt has an active session,
\* and that session's start instant equals the task's startedAt.
C30_RunningTasksHaveTheirSession ==
  storageAvailable =>
    \A i \in Running(notes) :
      /\ notes[i].id \in DOMAIN activeTimers
      /\ activeTimers[notes[i].id] = notes[i].startedAt

\* C31: opening the details view of any task ends without an error, changes
\* no task and no session, and for an inprogress task with a session shows
\* timeSpent + (now - the session's start) as a running time.
C31_Step ==
  \A noteId \in NoteIds(notes) :
    (storageAvailable /\ openTaskDetailsModal(noteId)) =>
      LET note == notes[findIndex(notes, noteId)]
      IN /\ details'.kind = "open"
         /\ notes' = notes
         /\ stored' = stored
         /\ activeTimers' = activeTimers
         /\ (note.column = "inprogress" /\ isTimerActive(activeTimers, noteId)) =>
              details'.timeSpentDisplay =
                formatElapsedTime(note.timeSpent + (now - activeTimers[noteId]))
C31_DetailsOpenCleanly == [][C31_Step]_vars

\* C32: saving the edit form of a task with non-empty text leaves the task
\* with that id in the task set, and its persisted copy, with the form's
\* text, description, priority and dueDate and with lastEditedAt = now,
\* also when a drop reloaded the task list while the form was open.
C32_Step ==
  \A c \in Contents :
    (storageAvailable /\ saveTask(c) /\ EditedIndex # 0) =>
      LET v == formValues(c)
          i == findIndex(notes', modal.id)
          j == findIndex(stored', modal.id)
          Carries(n) ==
            /\ n.text = v.text
            /\ n.description = v.description
            /\ n.priority = v.priority
            /\ n.dueDate = v.dueDate
            /\ n.lastEditedAt = now
      IN /\ i # 0 /\ Carries(notes'[i])
         /\ j # 0 /\ Carries(stored'[j])
C32_SaveReachesTheTask == [][C32_Step]_vars

\* C33: with days of 24 hours, formatDueDate reports isUrgent exactly when
\* 0 <= due - now < 48 h, never reports isOverdue and isUrgent together, and
\* a due instant 48 h or more ahead (72 h among them) is Normal.
C33_UrgentWithin48h ==
  (call.op = "formatDueDate" /\ call.zone = "fixed") =>
    LET ahead == call.timestamp - call.at
    IN /\ call.info.isUrgent = (0 <= ahead /\ ahead < 48 * HalfHoursPerHour)
       /\ ~(call.info.isOverdue /\ call.info.isUrgent)
       /\ ahead >= 48 * HalfHoursPerHour =>
            /\ call.info.text = "Due"
            /\ ~call.info.isOverdue
       /\ ahead = 72 * HalfHoursPerHour => call.info.text = "Due"
\* half an hour short of 48 h, on the day after tomorrow: urgent as DueSoon
C33_Witness ==
  /\ call.op = "formatDueDate"
  /\ call.zone = "fixed"
  /\ call.timestamp - call.at = 48 * HalfHoursPerHour - 1
  /\ call.info.text = "Due in h"
  /\ call.info.isUrgent

\* C34: in the legacy board, a note that is in done with a start time has had
\* its totalTime recorded by the render that first saw it there, and no later
\* render changes that totalTime, also when the recorded value is 0.
C34_Step ==
  \A i \in 1..Len(notes) :
    (/\ notes[i].column = "done"
     /\ notes[i].startTime # Null
     /\ notes[i].key \in Keys(notes')) =>
      TaskOf(notes', notes[i].key).totalTime = notes[i].totalTime
C34_TotalTimeRecordedOnce == [][C34_Step]_vars
====
